---- MODULE Spec2Model ----
(***************************************************************************)
(* Media File Date Renamer.                                                *)
(*                                                                         *)
(* A file name is a sequence of one-character strings.  A directory is a   *)
(* function from the names of its entries to their stat records.  Time     *)
(* stamps are whole hours since 1970-01-01 00:00 local time (TLC integers  *)
(* are 32 bits wide, and a count of seconds does not reach the year 10000  *)
(* that datetime.fromtimestamp refuses).                                   *)
(***************************************************************************)
EXTENDS Integers, Sequences, FiniteSets, TLC

(***************************************************************************)
(* Bounds of the model.                                                    *)
(***************************************************************************)
\* entries of the directory the tool is pointed at
MaxEntries == 3
\* executions of main, one after the other, on the same directory
MaxRuns == 2

(***************************************************************************)
(* Characters and strings.                                                 *)
(***************************************************************************)
Digits == <<"0", "1", "2", "3", "4", "5", "6", "7", "8", "9">>

UpperCase == <<"A", "B", "C", "D", "E", "F", "G", "H", "I", "J", "K", "L", "M",
               "N", "O", "P", "Q", "R", "S", "T", "U", "V", "W", "X", "Y", "Z">>

LowerCase == <<"a", "b", "c", "d", "e", "f", "g", "h", "i", "j", "k", "l", "m",
               "n", "o", "p", "q", "r", "s", "t", "u", "v", "w", "x", "y", "z">>

\* the characters re's \s and str.strip() take for white space
WhiteSpace == {" ", "\t", "\n", "\r"}

\* the characters main strips from the ends of the directory path
Quotes == {"\"", "'"}

Range(s) == {s[i] : i \in DOMAIN s}

IsDigit(c) == c \in Range(Digits)

IsSpace(c) == c \in WhiteSpace

\* str.lower() on one character
LowerChar(c) ==
    IF \E i \in DOMAIN UpperCase : UpperCase[i] = c
    THEN LowerCase[CHOOSE i \in DOMAIN UpperCase : UpperCase[i] = c]
    ELSE c

\* str.lower()
Lower(s) == [i \in DOMAIN s |-> LowerChar(s[i])]

\* str.strip(chars): drop the leading and trailing characters that are in chars
Strip(s, chars) ==
    LET keep == {i \in DOMAIN s : s[i] \notin chars}
    IN  IF keep = {} THEN <<>>
        ELSE LET lo == CHOOSE i \in keep : \A j \in keep : i <= j
                 hi == CHOOSE i \in keep : \A j \in keep : j <= i
             IN  SubSeq(s, lo, hi)

(***************************************************************************)
(* get_file_creation_date: the stat record, the earlier of the two time    *)
(* stamps, and datetime.fromtimestamp.                                     *)
(***************************************************************************)
\* the value get_file_creation_date returns when anything in it raises; it is no
\* date, and is a record so that it compares with one
None == [year |-> 0, month |-> 0, day |-> 0]

HoursPerDay == 24

\* datetime.MAXYEAR and datetime.MINYEAR: fromtimestamp raises outside them
MAXYEAR == 9999

MINYEAR == 1

Min(a, b) == IF a <= b THEN a ELSE b

\* the proleptic Gregorian date of a day counted from 1970-01-01
CivilFromDays(days) ==
    LET z   == days + 719468
        era == z \div 146097
        doe == z - era * 146097
        yoe == (doe - doe \div 1460 + doe \div 36524 - doe \div 146096) \div 365
        doy == doe - (365 * yoe + yoe \div 4 - yoe \div 100)
        mp  == (5 * doy + 2) \div 153
        d   == doy - (153 * mp + 2) \div 5 + 1
        m   == IF mp < 10 THEN mp + 3 ELSE mp - 9
        y   == yoe + era * 400 + (IF m <= 2 THEN 1 ELSE 0)
    IN  [year |-> y, month |-> m, day |-> d]

\* datetime.fromtimestamp(t): the local date of t, or None where it raises
FromTimestamp(t) ==
    LET date == CivilFromDays(t \div HoursPerDay)
    IN  IF date.year > MAXYEAR \/ date.year < MINYEAR THEN None ELSE date

\* hasattr(stat, attr): every stat result has st_ctime and st_mtime; st_birthtime
\* is there on some platforms only
hasattr(stat, attr) ==
    IF attr = "st_birthtime" THEN stat.has_birthtime ELSE attr \in {"st_ctime", "st_mtime"}

\* the creation-like time stamp: birth time where the stat result has one, else
\* st_ctime, else st_mtime
CreationTime(stat) ==
    IF hasattr(stat, "st_birthtime") THEN stat.st_birthtime
    ELSE IF hasattr(stat, "st_ctime") THEN stat.st_ctime
    ELSE stat.st_mtime

\* the later of the two time stamps
LatestTime(stat) ==
    IF CreationTime(stat) >= stat.st_mtime THEN CreationTime(stat) ELSE stat.st_mtime

\* the earlier of the two time stamps
EarliestTime(stat) == Min(CreationTime(stat), stat.st_mtime)

(***************************************************************************)
(* strftime('%Y-%m-%d').                                                   *)
(***************************************************************************)
\* the decimal digits of n, padded with zeros on the left to width w
RECURSIVE ZeroPad(_, _)
ZeroPad(n, w) ==
    IF w <= 1 /\ n < 10 THEN <<Digits[n + 1]>>
    ELSE ZeroPad(n \div 10, w - 1) \o <<Digits[(n % 10) + 1]>>

\* the decimal digits of n with no padding
Unpadded(n) == ZeroPad(n, 1)

\* %m and %d: two digits
Pad2(n) == ZeroPad(n, 2)

\* the date with the month and the day not padded
strftime_unpadded(date) ==
    ZeroPad(date.year, 4) \o <<"-">> \o Unpadded(date.month) \o <<"-">> \o Unpadded(date.day)

\* creation_date.strftime('%Y-%m-%d')
strftime(date) ==
    ZeroPad(date.year, 4) \o <<"-">> \o Pad2(date.month) \o <<"-">> \o Pad2(date.day)

(***************************************************************************)
(* is_media_file and already_has_date_prefix.                              *)
(***************************************************************************)
media_extensions ==
    { <<".", "j", "p", "g">>, <<".", "j", "p", "e", "g">>, <<".", "p", "n", "g">>,
      <<".", "g", "i", "f">>, <<".", "b", "m", "p">>, <<".", "t", "i", "f", "f">>,
      <<".", "t", "i", "f">>, <<".", "w", "e", "b", "p">>, <<".", "s", "v", "g">>,
      <<".", "r", "a", "w">>, <<".", "c", "r", "2">>, <<".", "n", "e", "f">>,
      <<".", "a", "r", "w">>, <<".", "d", "n", "g">>,
      <<".", "m", "p", "4">>, <<".", "a", "v", "i">>, <<".", "m", "o", "v">>,
      <<".", "w", "m", "v">>, <<".", "f", "l", "v">>, <<".", "w", "e", "b", "m">>,
      <<".", "m", "k", "v">>, <<".", "m", "4", "v">>, <<".", "3", "g", "p">>,
      <<".", "m", "p", "g">>, <<".", "m", "p", "e", "g">>, <<".", "m", "2", "v">>,
      <<".", "m", "t", "s">> }

\* pathlib's Path(name).suffix: from the last dot on, unless that dot is the
\* first or the last character of the name
Suffix(name) ==
    LET dots == {i \in DOMAIN name : name[i] = "."}
    IN  IF dots = {} THEN <<>>
        ELSE LET i == CHOOSE k \in dots : \A j \in dots : j <= k
             IN  IF 1 < i /\ i < Len(name) THEN SubSeq(name, i, Len(name)) ELSE <<>>

\* every file taken for a media file
is_media_file_any(name) == TRUE

is_media_file(name) == Lower(Suffix(name)) \in media_extensions

\* a test for the date followed by an underscore
already_has_date_prefix_underscore(filename) ==
    /\ Len(filename) >= 11
    /\ \A i \in {1, 2, 3, 4, 6, 7, 9, 10} : IsDigit(filename[i])
    /\ filename[5] = "-"
    /\ filename[8] = "-"
    /\ filename[11] = "_"

\* re.match(r'^\d{4}-\d{2}-\d{2}\s+', filename)
already_has_date_prefix(filename) ==
    /\ Len(filename) >= 11
    /\ \A i \in {1, 2, 3, 4, 6, 7, 9, 10} : IsDigit(filename[i])
    /\ filename[5] = "-"
    /\ filename[8] = "-"
    /\ IsSpace(filename[11])

(***************************************************************************)
(* The file system: one directory, TheDir, and what it may hold.           *)
(***************************************************************************)
TheDir == <<"d">>

\* os.path.isdir(path)
isdir(path) == path = TheDir

a_jpg == <<"a", ".", "j", "p", "g">>

b_PNG == <<"b", ".", "P", "N", "G">>

n_txt == <<"n", ".", "t", "x", "t">>

d2024_a_jpg == <<"2", "0", "2", "4", "-", "0", "5", "-", "0", "1", " ", "a", ".", "j", "p", "g">>

d2022_v_mp4 == <<"2", "0", "2", "2", "-", "0", "1", "-", "0", "1", "\t", "v", ".", "m", "p", "4">>

d2024_b_PNG == <<"2", "0", "2", "4", "-", "0", "5", "-", "0", "1", " ", "b", ".", "P", "N", "G">>

\* the time stamps a file may carry: a copy made on 2024-05-01 of a picture
\* taken on 2023-03-15; a file made and last written on 2024-05-01; a file with
\* a birth time of 2024-05-01, an earlier st_ctime that is not read, and a later
\* modification; a file stamped in the year 10000
Stamps ==
    { [has_birthtime |-> FALSE, st_birthtime |-> 0, st_ctime |-> 19844 * 24 + 9,
       st_mtime |-> 19431 * 24 + 10],
      [has_birthtime |-> FALSE, st_birthtime |-> 0, st_ctime |-> 19844 * 24 + 9,
       st_mtime |-> 19844 * 24 + 9],
      [has_birthtime |-> TRUE, st_birthtime |-> 19844 * 24 + 2, st_ctime |-> 19431 * 24,
       st_mtime |-> 19900 * 24 + 7],
      [has_birthtime |-> FALSE, st_birthtime |-> 0, st_ctime |-> 2932897 * 24,
       st_mtime |-> 2932897 * 24] }

OneStamp == {CHOOSE st \in Stamps : st.has_birthtime}

\* the stamps with a birth time, and those no date can be made of
TwoStamps == {st \in Stamps : st.has_birthtime \/ FromTimestamp(st.st_mtime) = None}

\* the entries a directory is drawn from: name, inode, regular file or
\* directory, and time stamps
Entry(name, ino, is_file, stamps) ==
    {[name |-> name, ino |-> ino, is_file |-> is_file, stat |-> st] : st \in stamps}

Candidates ==
    Entry(a_jpg, 1, TRUE, Stamps) \cup Entry(b_PNG, 2, TRUE, TwoStamps)
        \cup Entry(n_txt, 3, TRUE, OneStamp) \cup Entry(d2024_a_jpg, 4, TRUE, OneStamp)
        \cup Entry(d2022_v_mp4, 5, TRUE, OneStamp) \cup Entry(d2024_b_PNG, 6, FALSE, OneStamp)

\* the directory holding the entries es
DirOf(es) ==
    [n \in {e.name : e \in es} |->
        LET e == CHOOSE x \in es : x.name = n
        IN  [ino |-> e.ino, is_file |-> e.is_file, stat |-> e.stat]]

Directories ==
    {DirOf(es) : es \in {x \in SUBSET Candidates :
        /\ Cardinality(x) <= MaxEntries
        /\ \A e1, e2 \in x : e1.name = e2.name => e1 = e2}}

\* a test that sees regular files only
exists_as_file(d, name) == name \in DOMAIN d /\ d[name].is_file

\* os.path.exists(os.path.join(directory_path, name))
exists(d, name) == name \in DOMAIN d

\* a test that takes every entry for a regular file
is_entry(d, name) == name \in DOMAIN d

\* os.path.isfile(os.path.join(directory_path, name))
isfile(d, name) == name \in DOMAIN d /\ d[name].is_file

\* the orders in which os.listdir may return the entries of d
Listings(d) ==
    LET n == Cardinality(DOMAIN d)
    IN  {s \in [1..n -> DOMAIN d] : \A i, j \in 1..n : s[i] = s[j] => i = j}

\* os.rename(src, dst) when it succeeds: dst names the file src named, and
\* whatever dst named before is gone
rename(d, src, dst) ==
    [n \in (DOMAIN d \ {src}) \cup {dst} |-> IF n = dst THEN d[src] ELSE d[n]]

\* get_file_creation_date(file_path): None when os.stat or fromtimestamp raises
get_file_creation_date(d, name) ==
    IF ~exists(d, name) THEN None ELSE FromTimestamp(EarliestTime(d[name].stat))

\* new_filename = f"{date_str} {filename}"
new_filename_of(creation_date, filename) == strftime(creation_date) \o <<" ">> \o filename

(***************************************************************************)
(* What the user types.                                                    *)
(***************************************************************************)
TypedPaths == { <<"d">>, <<" ", "\"", "d", "\"">>, <<"'", "x", "'">> }

TypedAnswers ==
    { <<"y", "e", "s">>, <<" ", "Y", "\n">>, <<"N", "o">>, <<"n">>,
      <<"m", "a", "y", "b", "e">>, <<>> }

\* an empty answer taken for yes too
yes_by_default == {<<"y", "e", "s">>, <<"y">>, <<>>}

yes == {<<"y", "e", "s">>, <<"y">>}

no == {<<"n", "o">>, <<"n">>}

(***************************************************************************)
(* The state.                                                              *)
(***************************************************************************)
VARIABLES
    pc,             \* where main stands
    dir,            \* the directory TheDir
    directory,      \* main's local: the path typed, stripped
    proceed,        \* main's local: the answer typed, stripped and lowered
    dry_run,        \* rename_media_files' parameter
    media_files,    \* rename_media_files' local
    idx,            \* the position of the for loop in media_files
    renamed_count,
    skipped_count,
    error_count,
    out,            \* the lines the latest call of rename_media_files printed
    summary,        \* the summary it printed, if it came that far
    run,            \* history: the number of this execution of main
    dir0,           \* history: dir when the latest call of rename_media_files began
    dir_start,      \* history: dir when this execution of main began
    preview_done,   \* history: the preview of this execution has returned
    real_runs,      \* history: calls with dry_run = False in this execution
    renamed_before  \* history: inodes renamed by earlier executions

vars ==
    <<pc, dir, directory, proceed, dry_run, media_files, idx, renamed_count,
      skipped_count, error_count, out, summary, run, dir0, dir_start, preview_done,
      real_runs, renamed_before>>

main_locals == <<directory, proceed>>

call_locals ==
    <<media_files, idx, renamed_count, skipped_count, error_count, out, summary>>

history == <<run, dir_start, preview_done, real_runs, renamed_before>>

Line(kind, old, new) == [kind |-> kind, old |-> old, new |-> new]

\* the lines that report on one file
FileKinds == {"SKIP", "ERROR_DATE", "ERROR_EXISTS", "WOULD_RENAME", "RENAMED", "ERROR_RENAME"}

Init ==
    /\ pc = "ask_dir"
    /\ dir \in Directories
    /\ directory = <<>>
    /\ proceed = <<>>
    /\ dry_run = TRUE
    /\ media_files = <<>>
    /\ idx = 1
    /\ renamed_count = 0
    /\ skipped_count = 0
    /\ error_count = 0
    /\ out = <<>>
    /\ summary = <<>>
    /\ run = 1
    /\ dir0 = dir
    /\ dir_start = dir
    /\ preview_done = FALSE
    /\ real_runs = 0
    /\ renamed_before = {}

(***************************************************************************)
(* main, lines 157-167: ask for the directory until it is one.             *)
(***************************************************************************)
AskDirectory ==
    /\ pc = "ask_dir"
    /\ \E typed \in TypedPaths :
        /\ directory' = Strip(Strip(typed, WhiteSpace), Quotes)
        /\ pc' = IF isdir(directory') THEN "call" ELSE "ask_dir"
    /\ dry_run' = TRUE
    /\ UNCHANGED <<dir, proceed, call_locals, dir0, history>>

\* where a call of rename_media_files returns to
Return == IF dry_run THEN "ask_proceed" ELSE "done"

Returned ==
    /\ pc' = Return
    /\ preview_done' = (preview_done \/ dry_run)

(***************************************************************************)
(* rename_media_files, lines 74-97: list the directory, keep the media     *)
(* files, return early when there is nothing to do.                        *)
(***************************************************************************)
RmfEnter ==
    /\ pc = "call"
    /\ dir0' = dir
    /\ real_runs' = IF dry_run THEN real_runs ELSE real_runs + 1
    /\ idx' = 1
    /\ summary' = <<>>
    /\ IF ~isdir(directory)
       THEN /\ out' = <<Line("NO_DIRECTORY", <<>>, <<>>)>>
            /\ media_files' = <<>>
            /\ Returned
            /\ UNCHANGED <<renamed_count, skipped_count, error_count>>
       ELSE \E listing \in Listings(dir) :
            LET files == SelectSeq(listing, LAMBDA f : isfile(dir, f))
                media == SelectSeq(files, is_media_file)
            IN  /\ media_files' = media
                /\ IF files = <<>>
                   THEN /\ out' = <<Line("NO_FILES", <<>>, <<>>)>>
                        /\ Returned
                        /\ UNCHANGED <<renamed_count, skipped_count, error_count>>
                   ELSE IF media = <<>>
                   THEN /\ out' = <<Line("NO_MEDIA_FILES", <<>>, <<>>)>>
                        /\ Returned
                        /\ UNCHANGED <<renamed_count, skipped_count, error_count>>
                   ELSE /\ out' = <<Line("FOUND", <<>>, <<>>)>>
                        /\ renamed_count' = 0
                        /\ skipped_count' = 0
                        /\ error_count' = 0
                        /\ pc' = "loop"
                        /\ UNCHANGED preview_done
    /\ UNCHANGED <<dir, main_locals, dry_run, run, dir_start, renamed_before>>

(***************************************************************************)
(* rename_media_files, lines 99-138: one turn of the for loop.             *)
(***************************************************************************)
\* a turn of the loop that renames whether or not the run is a dry run
OutcomeIgnoringDryRun(d, filename, dry, fails) ==
    LET creation_date == get_file_creation_date(d, filename)
    IN  IF already_has_date_prefix(filename) THEN "SKIP"
        ELSE IF creation_date = None THEN "ERROR_DATE"
        ELSE IF exists(d, new_filename_of(creation_date, filename)) THEN "ERROR_EXISTS"
        ELSE IF fails THEN "ERROR_RENAME"
        ELSE "RENAMED"

\* a turn of the loop that does not look whether the new name is taken
OutcomeWithoutExistsCheck(d, filename, dry, fails) ==
    LET creation_date == get_file_creation_date(d, filename)
    IN  IF already_has_date_prefix(filename) THEN "SKIP"
        ELSE IF creation_date = None THEN "ERROR_DATE"
        ELSE IF dry THEN "WOULD_RENAME"
        ELSE IF fails THEN "ERROR_RENAME"
        ELSE "RENAMED"

\* the branch one turn of the loop takes on filename; fails says whether
\* os.rename raises if it is called
Outcome(d, filename, dry, fails) ==
    LET creation_date == get_file_creation_date(d, filename)
    IN  IF already_has_date_prefix(filename) THEN "SKIP"
        ELSE IF creation_date = None THEN "ERROR_DATE"
        ELSE IF exists(d, new_filename_of(creation_date, filename)) THEN "ERROR_EXISTS"
        ELSE IF dry THEN "WOULD_RENAME"
        ELSE IF fails THEN "ERROR_RENAME"
        ELSE "RENAMED"

\* the branches that come after new_filename is built, and name it
NamesTarget == {"ERROR_EXISTS", "WOULD_RENAME", "RENAMED", "ERROR_RENAME"}

\* the error branches, the failed rename left out
ErrorKindsWithoutRename == {"ERROR_DATE", "ERROR_EXISTS"}

\* the branch with renamed_count += 1
RenamedKinds == {"RENAMED"}

\* the branch with skipped_count += 1
SkippedKinds == {"SKIP"}

\* the branches with error_count += 1
ErrorKinds == {"ERROR_DATE", "ERROR_EXISTS", "ERROR_RENAME"}

Bump(count, kind, kinds) == IF kind \in kinds THEN count + 1 ELSE count

ProcessFile ==
    /\ pc = "loop"
    /\ idx <= Len(media_files)
    /\ \E fails \in BOOLEAN :
        LET filename == media_files[idx]
            kind     == Outcome(dir, filename, dry_run, fails)
            new      == IF kind \in NamesTarget
                        THEN new_filename_of(get_file_creation_date(dir, filename), filename)
                        ELSE <<>>
        IN  /\ out' = Append(out, Line(kind, filename, new))
            /\ dir' = IF kind = "RENAMED" THEN rename(dir, filename, new) ELSE dir
            /\ renamed_count' = Bump(renamed_count, kind, RenamedKinds)
            /\ skipped_count' = Bump(skipped_count, kind, SkippedKinds)
            /\ error_count' = Bump(error_count, kind, ErrorKinds)
    /\ idx' = idx + 1
    /\ UNCHANGED <<pc, main_locals, dry_run, media_files, summary, dir0, history>>

(***************************************************************************)
(* rename_media_files, lines 140-146: the summary, and the return.         *)
(***************************************************************************)
Summary ==
    /\ pc = "loop"
    /\ idx > Len(media_files)
    /\ summary' = <<[dry_run |-> dry_run, total |-> Len(media_files),
                     renamed |-> renamed_count, skipped |-> skipped_count,
                     errors |-> error_count]>>
    /\ Returned
    /\ UNCHANGED <<dir, main_locals, dry_run, media_files, idx, renamed_count,
                   skipped_count, error_count, out, run, dir0, dir_start, real_runs,
                   renamed_before>>

(***************************************************************************)
(* main, lines 177-191: ask whether to proceed until the answer is yes or  *)
(* no.                                                                     *)
(***************************************************************************)
AskProceed ==
    /\ pc = "ask_proceed"
    /\ \E typed \in TypedAnswers :
        /\ proceed' = Lower(Strip(typed, WhiteSpace))
        /\ IF proceed' \in yes THEN pc' = "call" /\ dry_run' = FALSE
           ELSE IF proceed' \in no THEN pc' = "done" /\ UNCHANGED dry_run
           ELSE UNCHANGED <<pc, dry_run>>
    /\ UNCHANGED <<dir, directory, call_locals, dir0, history>>

(***************************************************************************)
(* Lines 193-194: the user starts the program again, on the directory as   *)
(* the execution before left it.                                           *)
(***************************************************************************)
\* the inodes the latest call renamed
RenamedNow == {dir0[out[i].old].ino : i \in {j \in DOMAIN out : out[j].kind = "RENAMED"}}

Restart ==
    /\ pc = "done"
    /\ run < MaxRuns
    /\ pc' = "ask_dir"
    /\ run' = run + 1
    /\ renamed_before' = renamed_before \cup RenamedNow
    /\ directory' = <<>>
    /\ proceed' = <<>>
    /\ dry_run' = TRUE
    /\ media_files' = <<>>
    /\ idx' = 1
    /\ renamed_count' = 0
    /\ skipped_count' = 0
    /\ error_count' = 0
    /\ out' = <<>>
    /\ summary' = <<>>
    /\ dir0' = dir
    /\ dir_start' = dir
    /\ preview_done' = FALSE
    /\ real_runs' = 0
    /\ UNCHANGED dir

Next == AskDirectory \/ RmfEnter \/ ProcessFile \/ Summary \/ AskProceed \/ Restart

Spec == Init /\ [][Next]_vars

(***************************************************************************)
(* The vocabulary of the properties, stated without the program's own      *)
(* tests.                                                                  *)
(***************************************************************************)
\* four digits, hyphen, two digits, hyphen, two digits, white space
MatchesDatePattern(n) ==
    /\ Len(n) >= 11
    /\ \A i \in {1, 2, 3, 4, 6, 7, 9, 10} : n[i] \in {"0", "1", "2", "3", "4", "5", "6", "7", "8", "9"}
    /\ n[5] = "-" /\ n[8] = "-"
    /\ n[11] \in {" ", "\t", "\n", "\r"}

HasMediaExtension(n) == Lower(Suffix(n)) \in media_extensions

\* the number a sequence of digits writes
RECURSIVE Number(_)
Number(ds) ==
    IF ds = <<>> THEN 0
    ELSE 10 * Number(SubSeq(ds, 1, Len(ds) - 1))
            + (CHOOSE v \in 0..9 : Digits[v + 1] = ds[Len(ds)])

\* the calendar date of the earlier of the creation-like time stamp c and the
\* modification time stamp m of a stat record
DateOfMin(st) ==
    LET c == IF st.has_birthtime THEN st.st_birthtime ELSE st.st_ctime
        m == st.st_mtime
    IN  CivilFromDays((IF c <= m THEN c ELSE m) \div HoursPerDay)

\* new is the date YYYY-MM-DD, one space, and old unchanged
IsDateSpaceName(new, date, old) ==
    /\ Len(new) = Len(old) + 11
    /\ \A i \in {1, 2, 3, 4, 6, 7, 9, 10} : IsDigit(new[i])
    /\ Number(SubSeq(new, 1, 4)) = date.year
    /\ new[5] = "-"
    /\ Number(SubSeq(new, 6, 7)) = date.month
    /\ new[8] = "-"
    /\ Number(SubSeq(new, 9, 10)) = date.day
    /\ new[11] = " "
    /\ SubSeq(new, 12, Len(new)) = old

\* the positions in out of the lines that report on one file
FileLines == {i \in DOMAIN out : out[i].kind \in FileKinds}

LinesOfKind(kinds) == {i \in DOMAIN out : out[i].kind \in kinds}

\* the latest call of rename_media_files got past enumeration
PastEnumeration == out # <<>> /\ out[1].kind = "FOUND"

\* the latest call of rename_media_files has returned
CallReturned == pc \in {"ask_proceed", "done"}

\* the regular files of d with a media extension
MediaFilesOf(d) == {n \in DOMAIN d : d[n].is_file /\ HasMediaExtension(n)}

(***************************************************************************)
(* C1.  A dry run never mutates the file system: whatever the directory    *)
(* holds and whatever the turns of the loop come to, the directory during  *)
(* and after a call with dry_run = True is the directory the call found,   *)
(* and so is its set of names.                                             *)
(***************************************************************************)
C1_DryRunNeverMutates ==
    dry_run => dir = dir0 /\ DOMAIN dir = DOMAIN dir0

C1_Witness ==
    /\ pc = "ask_proceed"
    /\ LinesOfKind({"WOULD_RENAME"}) # {}
    /\ LinesOfKind({"ERROR_EXISTS"}) # {}
    /\ LinesOfKind({"SKIP"}) # {}

(***************************************************************************)
(* C2.  Every step that changes the directory renames one file whose       *)
(* lowercased extension is a media extension and whose name does not match *)
(* the date pattern, to a name no entry had; and no step touches a file    *)
(* whose extension is not a media extension.                               *)
(***************************************************************************)
C2_RenameOnlyWhenAllowed ==
    [][ /\ dir' # dir =>
            \E old \in DOMAIN dir : \E new \in DOMAIN dir' :
                /\ HasMediaExtension(old)
                /\ ~MatchesDatePattern(old)
                /\ new \notin DOMAIN dir
                /\ old \notin DOMAIN dir'
                /\ DOMAIN dir' = (DOMAIN dir \ {old}) \cup {new}
                /\ dir'[new] = dir[old]
                /\ \A n \in DOMAIN dir \ {old} : dir'[n] = dir[n]
        /\ \A n \in DOMAIN dir :
            ~HasMediaExtension(n) => n \in DOMAIN dir' /\ dir'[n] = dir[n] ]_vars

C2_Witness ==
    /\ LinesOfKind({"RENAMED"}) # {}
    /\ n_txt \in DOMAIN dir
    /\ dir # dir_start

(***************************************************************************)
(* C3.  A file whose name matches the date pattern is never renamed and is *)
(* counted as skipped; every name a rename produces matches the pattern    *)
(* and keeps a media extension; and in a later execution every file an     *)
(* earlier execution renamed is skipped, in the preview and in the real    *)
(* run.                                                                    *)
(***************************************************************************)
C3_Idempotent ==
    /\ \A i \in FileLines : MatchesDatePattern(out[i].old) => out[i].kind = "SKIP"
    /\ PastEnumeration =>
         skipped_count = Cardinality({i \in FileLines : MatchesDatePattern(out[i].old)})
    /\ \A i \in LinesOfKind({"RENAMED"}) :
         MatchesDatePattern(out[i].new) /\ HasMediaExtension(out[i].new)
    /\ \A i \in FileLines : dir0[out[i].old].ino \in renamed_before => out[i].kind = "SKIP"
    /\ CallReturned =>
         \A n \in DOMAIN dir0 : dir0[n].ino \in renamed_before =>
             /\ n \in DOMAIN dir /\ dir[n] = dir0[n]
             /\ \E i \in LinesOfKind({"SKIP"}) : out[i].old = n

C3_Witness ==
    /\ run = 2
    /\ pc = "done"
    /\ ~dry_run
    /\ \E n \in DOMAIN dir : dir[n].ino \in renamed_before
    /\ LinesOfKind({"RENAMED"}) # {}

(***************************************************************************)
(* C4.  When the turn of the loop comes to a media file without a date     *)
(* prefix whose new name, date and space and name, is the name of an entry *)
(* of the directory, the directory stays as it is (the file under its      *)
(* name, the entry untouched), error_count grows by one, nothing else is   *)
(* counted, and the loop goes on to the next file.                         *)
(***************************************************************************)
Collides(f) ==
    /\ f \in DOMAIN dir
    /\ ~MatchesDatePattern(f)
    /\ FromTimestamp(EarliestTime(dir[f].stat)) # None
    /\ \E new \in DOMAIN dir : IsDateSpaceName(new, DateOfMin(dir[f].stat), f)

C4_Collision ==
    [][ (pc = "loop" /\ idx <= Len(media_files) /\ Collides(media_files[idx])) =>
            /\ dir' = dir
            /\ error_count' = error_count + 1
            /\ renamed_count' = renamed_count
            /\ skipped_count' = skipped_count
            /\ out' = Append(out, out'[Len(out')])
            /\ out'[Len(out')].kind = "ERROR_EXISTS"
            /\ out'[Len(out')].old = media_files[idx]
            /\ pc' = "loop"
            /\ idx' = idx + 1
            /\ media_files' = media_files ]_vars

C4_Witness ==
    /\ ~dry_run
    /\ pc = "loop"
    /\ idx <= Len(media_files)
    /\ out[Len(out)].kind = "ERROR_EXISTS"
    /\ out[Len(out)].old \in DOMAIN dir
    /\ out[Len(out)].new \in DOMAIN dir

(***************************************************************************)
(* C5.  Every rename performed, and every rename a dry run reports, maps   *)
(* the name n of a file to the zero-padded YYYY-MM-DD of the calendar date *)
(* of the earlier of the file's creation-like and modification time        *)
(* stamps, one space, and n unchanged; after a rename performed the file   *)
(* is under that name.                                                     *)
(***************************************************************************)
C5_EffectiveDateAndName ==
    \A i \in LinesOfKind({"RENAMED", "WOULD_RENAME"}) :
        /\ IsDateSpaceName(out[i].new, DateOfMin(dir0[out[i].old].stat), out[i].old)
        /\ out[i].kind = "RENAMED" =>
             out[i].new \in DOMAIN dir /\ dir[out[i].new] = dir0[out[i].old]

C5_Witness ==
    /\ \E i \in LinesOfKind({"RENAMED"}) :
         LET st == dir0[out[i].old].stat
         IN  ~st.has_birthtime /\ st.st_mtime < st.st_ctime
    /\ \E i \in LinesOfKind({"RENAMED"}) :
         LET st == dir0[out[i].old].stat
         IN  st.has_birthtime /\ st.st_birthtime < st.st_mtime

(***************************************************************************)
(* C6.  In a real run that got past enumeration, the media files are the   *)
(* media files of the directory, each once; after each turn of the loop    *)
(* every file the loop has come to has exactly one line, which is renamed, *)
(* skipped or one of the errors, and the three counters count those lines; *)
(* a metadata error, a collision or a failed rename is followed by the     *)
(* next file; and at the end renamed + skipped + errors is the total the   *)
(* summary gives, the number of media files found.                         *)
(***************************************************************************)
C6_EveryFileCountedOnce ==
    (~dry_run /\ pc \in {"loop", "done"} /\ PastEnumeration) =>
        /\ Len(media_files) = Cardinality(MediaFilesOf(dir0))
        /\ {media_files[k] : k \in DOMAIN media_files} = MediaFilesOf(dir0)
        /\ Len(out) = idx
        /\ \A k \in 1..(idx - 1) :
             /\ out[k + 1].old = media_files[k]
             /\ out[k + 1].kind \in {"RENAMED", "SKIP", "ERROR_DATE", "ERROR_EXISTS", "ERROR_RENAME"}
        /\ renamed_count = Cardinality(LinesOfKind({"RENAMED"}))
        /\ skipped_count = Cardinality(LinesOfKind({"SKIP"}))
        /\ error_count = Cardinality(LinesOfKind({"ERROR_DATE", "ERROR_EXISTS", "ERROR_RENAME"}))
        /\ renamed_count + skipped_count + error_count = idx - 1
        /\ pc = "done" =>
             /\ idx = Len(media_files) + 1
             /\ summary = <<[dry_run |-> FALSE, total |-> Len(media_files),
                             renamed |-> renamed_count, skipped |-> skipped_count,
                             errors |-> error_count]>>
             /\ renamed_count + skipped_count + error_count = summary[1].total

C6_Witness ==
    /\ ~dry_run
    /\ pc = "done"
    /\ PastEnumeration
    /\ renamed_count = 1
    /\ skipped_count = 1
    /\ LinesOfKind({"ERROR_RENAME"}) # {}
    /\ out[Len(out)].kind = "RENAMED"

(***************************************************************************)
(* C7, as the specification has it.  When the directory holds no media     *)
(* file, a call of rename_media_files gives a summary with all counts zero *)
(* and the message "No media files found", and renames nothing.            *)
(***************************************************************************)
C7_Original ==
    (CallReturned /\ MediaFilesOf(dir0) = {}) =>
        /\ \E i \in DOMAIN out : out[i].kind = "NO_MEDIA_FILES"
        /\ summary # <<>>
        /\ summary[1].total = 0 /\ summary[1].renamed = 0
        /\ summary[1].skipped = 0 /\ summary[1].errors = 0
        /\ dir = dir0

(***************************************************************************)
(* C7, amended.  When the directory holds no media file, a call of         *)
(* rename_media_files renames nothing, prints no line about a file and no  *)
(* summary, and prints one message: "No media files found in directory."   *)
(* when the directory holds a regular file, "No files found in directory." *)
(* when it holds none.                                                     *)
(***************************************************************************)
C7_NoMediaFiles ==
    (CallReturned /\ MediaFilesOf(dir0) = {}) =>
        /\ dir = dir0
        /\ summary = <<>>
        /\ Len(out) = 1
        /\ out[1].kind = IF \E n \in DOMAIN dir0 : dir0[n].is_file
                         THEN "NO_MEDIA_FILES" ELSE "NO_FILES"

C7_Witness ==
    /\ pc = "done"
    /\ ~dry_run
    /\ n_txt \in DOMAIN dir
    /\ MediaFilesOf(dir0) = {}
    /\ out[1].kind = "NO_MEDIA_FILES"

(***************************************************************************)
(* C8.  In an execution of main a step changes the directory only after    *)
(* the preview has returned and with the answer 'yes' or 'y', in the real  *)
(* run; after the answer 'no' or 'n' the directory is as the execution     *)
(* found it; an answer that is none of the four leaves main at the prompt  *)
(* and the directory as it is; and there is at most one real run.          *)
(***************************************************************************)
C8_ConfirmationGates ==
    [][ /\ dir' # dir =>
            /\ preview_done
            /\ proceed \in {<<"y", "e", "s">>, <<"y">>}
            /\ ~dry_run
            /\ real_runs = 1
        /\ (pc' = "done" /\ proceed' \in {<<"n", "o">>, <<"n">>}) => dir' = dir_start'
        /\ (pc = "ask_proceed" /\ pc' # "ask_proceed") =>
            proceed' \in {<<"y", "e", "s">>, <<"y">>, <<"n", "o">>, <<"n">>}
        /\ (pc = "ask_proceed" /\ pc' = "call") =>
            preview_done /\ proceed' \in {<<"y", "e", "s">>, <<"y">>}
        /\ pc = "ask_proceed" => dir' = dir /\ real_runs' = 0
        /\ real_runs' <= 1 ]_vars

C8_Witness ==
    /\ pc = "done"
    /\ dir # dir_start
    /\ preview_done
    /\ real_runs = 1
    /\ proceed = <<"y">>

ExpectedKinds(f) ==
    LET st == dir0[f].stat
    IN  IF already_has_date_prefix(f) THEN {"SKIP"}
        ELSE IF FromTimestamp(EarliestTime(st)) = None THEN {"ERROR_DATE"}
        ELSE IF \E n \in DOMAIN dir0 : IsDateSpaceName(n, DateOfMin(st), f)
             THEN {"ERROR_EXISTS"}
        ELSE {"WOULD_RENAME", "RENAMED", "ERROR_RENAME"}

C10_NoFileLost ==
    /\ Cardinality(DOMAIN dir) = Cardinality(DOMAIN dir0)
    /\ Cardinality(DOMAIN dir) = Cardinality(DOMAIN dir_start)
    /\ \A n \in DOMAIN dir0 :
         \/ n \in DOMAIN dir /\ dir[n] = dir0[n]
         \/ /\ n \notin DOMAIN dir
            /\ \E new \in DOMAIN dir \ DOMAIN dir0 :
                 /\ dir[new] = dir0[n]
                 /\ MatchesDatePattern(new)
                 /\ SubSeq(new, 12, Len(new)) = n
    /\ \A n1, n2 \in DOMAIN dir : dir[n1].ino = dir[n2].ino => n1 = n2

C10_Witness ==
    /\ ~dry_run
    /\ pc = "loop"
    /\ idx <= Len(media_files)
    /\ LinesOfKind({"RENAMED"}) # {}
    /\ LinesOfKind({"ERROR_EXISTS"}) # {}
    /\ Cardinality(DOMAIN dir \ DOMAIN dir0) >= 1

====
